---------------------------- MODULE Spec2Model ----------------------------
(***************************************************************************)
(* relate_cartesian_segments (strategies/cartesian/cart_intersect.hpp):    *)
(* the relation of two planar segments a and b, decided on the rescaled    *)
(* ("robust") endpoints and reported through one call of the Result        *)
(* Policy.  Coordinates are integers; a point is <<x, y>>, a segment is    *)
(* <<start, end>>.                                                         *)
(***************************************************************************)
EXTENDS Integers, Sequences, FiniteSets, TLC

VARIABLES a, b, robust, pc, result, result_ba, result_alt, cout, ratios

vars == <<a, b, robust, pc, result, result_ba, result_alt, cout, ratios>>

(* ------------------------------ bounds -------------------------------- *)

MaxX == 3
MaxY == 2
RobustMax == 1
Scale == 2

(* ------------------------- points and segments ------------------------ *)

\* get<Dimension>(point)
get(p, Dimension) == p[Dimension + 1]

\* get<Index, Dimension>(segment)
get_indexed(s, Index, Dimension) == s[Index + 1][Dimension + 1]

abs(x) == IF x < 0 THEN -x ELSE x

\* detail::equals::equals_point_point: coordinate-wise equality
equals_point_point(p, q) == get(p, 0) = get(q, 0) /\ get(p, 1) = get(q, 1)

\* geometry::detail::determinant(ux, uy, vx, vy)
determinant(ux, uy, vx, vy) == ux * vy - uy * vx

\* side::side_by_triangle::apply(p1, p2, p): the sign of (p2 - p1) x (p - p1)
side_apply(p1, p2, p) ==
    LET s == determinant(get(p2, 0) - get(p1, 0), get(p2, 1) - get(p1, 1),
                         get(p, 0) - get(p1, 0), get(p, 1) - get(p1, 1))
    IN  IF s > 0 THEN 1 ELSE IF s < 0 THEN -1 ELSE 0

(* ------------------------------ side_info ----------------------------- *)

\* sides.set<0>(f0, s0); sides.set<1>(f1, s1)
side_info_set(f0, s0, f1, s1) == <<<<f0, s0>>, <<f1, s1>>>>

\* sides.same<Which>(): both endpoints strictly on one side
side_info_same(sides, Which) == sides[Which + 1][1] * sides[Which + 1][2] = 1

\* sides.collinear(): all four sides are zero
side_info_collinear(sides) ==
    /\ sides[1][1] = 0 /\ sides[1][2] = 0
    /\ sides[2][1] = 0 /\ sides[2][2] = 0

(* ---------------------------- segment_ratio --------------------------- *)

\* segment_ratio(numerator, denominator) and assign(): the sign is carried by
\* the numerator; a zero denominator is kept as it is given
segment_ratio(n, d) ==
    IF d < 0 THEN [numerator |-> -n, denominator |-> -d]
             ELSE [numerator |-> n, denominator |-> d]

ratio_left(r) == r.numerator < 0
ratio_right(r) == r.numerator > r.denominator

(* ------------------------- the promoted ratio r ----------------------- *)

\* a value of promoted_type, kept as an exact fraction with positive denominator
RECURSIVE gcd(_, _)
gcd(x, y) == IF y = 0 THEN x ELSE gcd(y, x % y)

promoted(n) == <<n, 1>>
divide(n, d) ==
    LET g == gcd(abs(n), abs(d))
    IN  IF d < 0 THEN <<(-n) \div g, (-d) \div g>> ELSE <<n \div g, d \div g>>
less(x, y) == x[1] * y[2] < y[1] * x[2]

(* ----------------------------- Result Policy -------------------------- *)

Policy_disjoint == [kind |-> "disjoint"]

Policy_degenerate(segment, a_degenerate) ==
    [kind |-> "degenerate", segment |-> segment, a_degenerate |-> a_degenerate]

Policy_segments_crosses(sides, sinfo, sa, sb) ==
    [kind |-> "segments_crosses", sides |-> sides, sinfo |-> sinfo,
     a |-> sa, b |-> sb]

Policy_segments_collinear(sa, sb, ra_from, ra_to, rb_from, rb_to) ==
    [kind |-> "segments_collinear", a |-> sa, b |-> sb,
     ra_from |-> ra_from, ra_to |-> ra_to,
     rb_from |-> rb_from, rb_to |-> rb_to]

\* what one call of apply leaves behind: the value returned, the lines written
\* to std::cout and the segment_ratio objects it constructed
Returned(ret, out, constructed) ==
    [ret |-> ret, cout |-> out, ratios |-> constructed]

(* ------------------------ relate_cartesian_segments ------------------- *)

\* cramers_rule with da taken against the deltas of a instead of b
cramers_rule_da_of_a(dx_a, dy_a, dx_b, dy_b, wx, wy) ==
    [d  |-> determinant(dx_a, dy_a, dx_b, dy_b),
     da |-> determinant(dx_a, dy_a, wx, wy)]

\* cramers_rule with the deltas of b given to d in the wrong order
cramers_rule_d_transposed(dx_a, dy_a, dx_b, dy_b, wx, wy) ==
    [d  |-> determinant(dx_a, dy_a, dy_b, dx_b),
     da |-> determinant(dx_b, dy_b, wx, wy)]

\* cramers_rule: d and da of the ratio da / d
cramers_rule(dx_a, dy_a, dx_b, dy_b, wx, wy) ==
    [d  |-> determinant(dx_a, dy_a, dx_b, dy_b),
     da |-> determinant(dx_b, dy_b, wx, wy)]

\* verify_r without the correction of r above one
verify_r_lower_only(r) ==
    IF less(r, promoted(0)) THEN promoted(0) ELSE r

\* verify_r: r outside [0, 1] is set to the bound it passed
verify_r(r) ==
    LET zero == promoted(0)
        one  == promoted(1)
    IN  IF less(r, zero) \/ less(one, r)
        THEN IF less(one, r) THEN one
             ELSE IF less(r, zero) THEN zero
             ELSE r
        ELSE r

\* relate_collinear that finds a right of b by its start alone
relate_collinear_right_by_from(sa, sb, oa_1, oa_2, ob_1, ob_2) ==
    LET length_a == oa_2 - oa_1
        length_b == ob_2 - ob_1
        ra_from == segment_ratio(oa_1 - ob_1, length_b)
        ra_to   == segment_ratio(oa_2 - ob_1, length_b)
        rb_from == segment_ratio(ob_1 - oa_1, length_a)
        rb_to   == segment_ratio(ob_2 - oa_1, length_a)
        made    == <<ra_from, ra_to, rb_from, rb_to>>
    IN  IF \/ ratio_left(ra_from) /\ ratio_left(ra_to)
           \/ ratio_right(ra_from)
        THEN Returned(Policy_disjoint, <<>>, made)
        ELSE Returned(Policy_segments_collinear(sa, sb, ra_from, ra_to,
                                                rb_from, rb_to), <<>>, made)

\* relate_collinear on the coordinates of one dimension
relate_collinear(sa, sb, oa_1, oa_2, ob_1, ob_2) ==
    LET length_a == oa_2 - oa_1
        length_b == ob_2 - ob_1
        ra_from == segment_ratio(oa_1 - ob_1, length_b)
        ra_to   == segment_ratio(oa_2 - ob_1, length_b)
        rb_from == segment_ratio(ob_1 - oa_1, length_a)
        rb_to   == segment_ratio(ob_2 - oa_1, length_a)
        made    == <<ra_from, ra_to, rb_from, rb_to>>
    IN  IF \/ ratio_left(ra_from) /\ ratio_left(ra_to)
           \/ ratio_right(ra_from) /\ ratio_right(ra_to)
        THEN Returned(Policy_disjoint, <<>>, made)
        ELSE Returned(Policy_segments_collinear(sa, sb, ra_from, ra_to,
                                                rb_from, rb_to), <<>>, made)

\* relate_collinear<Dimension>: project the four robust points on one axis
relate_collinear_dim(Dimension, sa, sb, robust_a1, robust_a2, robust_b1, robust_b2) ==
    relate_collinear(sa, sb,
                     get(robust_a1, Dimension), get(robust_a2, Dimension),
                     get(robust_b1, Dimension), get(robust_b2, Dimension))

\* collinear_use_first with the comparison turned round
collinear_use_first_turned(robust_dx_a, robust_dx_b, robust_dy_a, robust_dy_b) ==
    abs(robust_dx_a) + abs(robust_dx_b) <= abs(robust_dy_a) + abs(robust_dy_b)

\* collinear_use_first: the x axis when it spans at least as much as the y axis
collinear_use_first(robust_dx_a, robust_dx_b, robust_dy_a, robust_dy_b) ==
    abs(robust_dx_a) + abs(robust_dx_b) >= abs(robust_dy_a) + abs(robust_dy_b)

\* the early exit taken only when both segments see the other on one side
same_side_both(sides) == side_info_same(sides, 0) /\ side_info_same(sides, 1)

\* the early exit: both endpoints of one segment on one side of the other
same_side(sides) == side_info_same(sides, 0) \/ side_info_same(sides, 1)

\* the outcome of two point-segments with the two results exchanged
both_degenerate_exchanged(sa, robust_a1, robust_b2) ==
    IF equals_point_point(robust_a1, robust_b2)
    THEN Policy_disjoint
    ELSE Policy_degenerate(sa, TRUE)

\* the outcome of two point-segments
both_degenerate(sa, robust_a1, robust_b2) ==
    IF equals_point_point(robust_a1, robust_b2)
    THEN Policy_degenerate(sa, TRUE)
    ELSE Policy_disjoint

\* the outcome of one point-segment, b passed with the flag of a
one_degenerate_flag_true(sa, sb, a_is_point) ==
    IF a_is_point THEN Policy_degenerate(sa, TRUE)
                  ELSE Policy_degenerate(sb, TRUE)

\* the outcome of one point-segment that was not rejected by its side
one_degenerate(sa, sb, a_is_point) ==
    IF a_is_point THEN Policy_degenerate(sa, TRUE)
                  ELSE Policy_degenerate(sb, FALSE)

\* intersection_info that takes the collinear way out on the determinant of
\* the original precision
intersection_info_by_d(sa, sb, robust_a1, robust_a2, robust_b1, robust_b2) ==
    LET dx_a == get_indexed(sa, 1, 0) - get_indexed(sa, 0, 0)
        dx_b == get_indexed(sb, 1, 0) - get_indexed(sb, 0, 0)
        dy_a == get_indexed(sa, 1, 1) - get_indexed(sa, 0, 1)
        dy_b == get_indexed(sb, 1, 1) - get_indexed(sb, 0, 1)
        robust_dx_a == get(robust_a2, 0) - get(robust_a1, 0)
        robust_dx_b == get(robust_b2, 0) - get(robust_b1, 0)
        robust_dy_a == get(robust_a2, 1) - get(robust_a1, 1)
        robust_dy_b == get(robust_b2, 1) - get(robust_b1, 1)
        wx == get_indexed(sa, 0, 0) - get_indexed(sb, 0, 0)
        wy == get_indexed(sa, 0, 1) - get_indexed(sb, 0, 1)
        orig == cramers_rule(dx_a, dy_a, dx_b, dy_b, wx, wy)
        robust_wx == get(robust_a1, 0) - get(robust_b1, 0)
        robust_wy == get(robust_a1, 1) - get(robust_b1, 1)
        ca == cramers_rule(robust_dx_a, robust_dy_a, robust_dx_b, robust_dy_b,
                           robust_wx, robust_wy)
        cb == cramers_rule(robust_dx_b, robust_dy_b, robust_dx_a, robust_dy_a,
                           get(robust_b1, 0) - get(robust_a1, 0),
                           get(robust_b1, 1) - get(robust_a1, 1))
        r == IF orig.d = 0 THEN promoted(0) ELSE divide(orig.da, orig.d)
        robust_ra == segment_ratio(ca.da, ca.d)
        robust_rb == segment_ratio(cb.da, cb.d)
    IN  IF orig.d = 0
        THEN [collinear |-> TRUE,
              cout |-> <<"Warning: robust_d=0, SHOULD NOT OCCUR">>,
              ratios |-> <<>>,
              sinfo |-> [dx_a |-> dx_a, dy_a |-> dy_a,
                         dx_b |-> dx_b, dy_b |-> dy_b]]
        ELSE [collinear |-> FALSE,
              cout |-> <<>>,
              ratios |-> <<robust_ra, robust_rb>>,
              sinfo |-> [dx_a |-> dx_a, dy_a |-> dy_a,
                         dx_b |-> dx_b, dy_b |-> dy_b,
                         r |-> verify_r(r),
                         robust_ra |-> robust_ra, robust_rb |-> robust_rb]]

\* the block of apply for segments that are not collinear by their sides:
\* the deltas, both determinants, r and the two robust ratios
intersection_info(sa, sb, robust_a1, robust_a2, robust_b1, robust_b2) ==
    LET dx_a == get_indexed(sa, 1, 0) - get_indexed(sa, 0, 0)
        dx_b == get_indexed(sb, 1, 0) - get_indexed(sb, 0, 0)
        dy_a == get_indexed(sa, 1, 1) - get_indexed(sa, 0, 1)
        dy_b == get_indexed(sb, 1, 1) - get_indexed(sb, 0, 1)
        robust_dx_a == get(robust_a2, 0) - get(robust_a1, 0)
        robust_dx_b == get(robust_b2, 0) - get(robust_b1, 0)
        robust_dy_a == get(robust_a2, 1) - get(robust_a1, 1)
        robust_dy_b == get(robust_b2, 1) - get(robust_b1, 1)
        wx == get_indexed(sa, 0, 0) - get_indexed(sb, 0, 0)
        wy == get_indexed(sa, 0, 1) - get_indexed(sb, 0, 1)
        orig == cramers_rule(dx_a, dy_a, dx_b, dy_b, wx, wy)
        robust_wx == get(robust_a1, 0) - get(robust_b1, 0)
        robust_wy == get(robust_a1, 1) - get(robust_b1, 1)
        ca == cramers_rule(robust_dx_a, robust_dy_a, robust_dx_b, robust_dy_b,
                           robust_wx, robust_wy)
        cb == cramers_rule(robust_dx_b, robust_dy_b, robust_dx_a, robust_dy_a,
                           get(robust_b1, 0) - get(robust_a1, 0),
                           get(robust_b1, 1) - get(robust_a1, 1))
        robust_da0 == ca.d
        robust_da  == ca.da
        robust_db0 == cb.d
        robust_db  == cb.da
        r == IF orig.d = 0 THEN promoted(0) ELSE divide(orig.da, orig.d)
        robust_ra == segment_ratio(robust_da, robust_da0)
        robust_rb == segment_ratio(robust_db, robust_db0)
    IN  IF robust_da0 = 0
        THEN [collinear |-> TRUE,
              cout |-> <<"Warning: robust_d=0, SHOULD NOT OCCUR">>,
              ratios |-> <<>>,
              sinfo |-> [dx_a |-> dx_a, dy_a |-> dy_a,
                         dx_b |-> dx_b, dy_b |-> dy_b]]
        ELSE [collinear |-> FALSE,
              cout |-> IF orig.d = 0 THEN <<"Warning: d=0">> ELSE <<>>,
              ratios |-> <<robust_ra, robust_rb>>,
              sinfo |-> [dx_a |-> dx_a, dy_a |-> dy_a,
                         dx_b |-> dx_b, dy_b |-> dy_b,
                         r |-> verify_r(r),
                         robust_ra |-> robust_ra, robust_rb |-> robust_rb]]

\* apply(a, b, robust_policy, robust_a1, robust_a2, robust_b1, robust_b2)
apply(sa, sb, robust_a1, robust_a2, robust_b1, robust_b2) ==
    LET a_is_point == equals_point_point(robust_a1, robust_a2)
        b_is_point == equals_point_point(robust_b1, robust_b2)
        sides == side_info_set(side_apply(robust_b1, robust_b2, robust_a1),
                               side_apply(robust_b1, robust_b2, robust_a2),
                               side_apply(robust_a1, robust_a2, robust_b1),
                               side_apply(robust_a1, robust_a2, robust_b2))
        collinear == side_info_collinear(sides)
        robust_dx_a == get(robust_a2, 0) - get(robust_a1, 0)
        robust_dx_b == get(robust_b2, 0) - get(robust_b1, 0)
        robust_dy_a == get(robust_a2, 1) - get(robust_a1, 1)
        robust_dy_b == get(robust_b2, 1) - get(robust_b1, 1)
        info == intersection_info(sa, sb, robust_a1, robust_a2,
                                  robust_b1, robust_b2)
        along == IF collinear_use_first(robust_dx_a, robust_dx_b,
                                        robust_dy_a, robust_dy_b)
                 THEN relate_collinear_dim(0, sa, sb, robust_a1, robust_a2,
                                           robust_b1, robust_b2)
                 ELSE relate_collinear_dim(1, sa, sb, robust_a1, robust_a2,
                                           robust_b1, robust_b2)
    IN  IF a_is_point /\ b_is_point
        THEN Returned(both_degenerate(sa, robust_a1, robust_b2), <<>>, <<>>)
        ELSE IF same_side(sides)
        THEN Returned(Policy_disjoint, <<>>, <<>>)
        ELSE IF a_is_point \/ b_is_point
        THEN Returned(one_degenerate(sa, sb, a_is_point), <<>>, <<>>)
        ELSE IF collinear
        THEN along
        ELSE IF info.collinear
        THEN Returned(along.ret, info.cout, along.ratios)
        ELSE Returned(Policy_segments_crosses(sides, info.sinfo, sa, sb),
                      info.cout, info.ratios)

\* apply(a, b): the overload without rescaling, the robust points are the
\* segments' own endpoints
apply_no_rescale(sa, sb) == apply(sa, sb, sa[1], sa[2], sb[1], sb[2])

(* ------------------------------ the inputs ---------------------------- *)

Points == (0..MaxX) \X (0..MaxY)
Segments == Points \X Points

RobustPoints == (0..RobustMax) \X (0..RobustMax)

\* the Robustness Policy: a point of the original precision falls in the cell
\* of the robust grid that holds it
rescale(p) == <<p[1] \div Scale, p[2] \div Scale>>

\* the corner of a robust cell, in the original precision
corner(rp) == <<Scale * rp[1], Scale * rp[2]>>

\* original segments with the robust endpoints r1, r2: the start on the corner
\* of its cell, the end anywhere on the cell's left edge
OriginalsOf(r1, r2) ==
    { <<corner(r1), <<corner(r2)[1], corner(r2)[2] + oy>>>> :
          oy \in 0..(Scale - 1) }

NotCalled == [kind |-> "none"]

\* two segments given to the overload without a robustness policy
Init ==
    /\ a \in Segments
    /\ b \in Segments
    /\ robust = <<a[1], a[2], b[1], b[2]>>
    /\ pc = "start"
    /\ result = NotCalled
    /\ result_ba = NotCalled
    /\ result_alt = NotCalled
    /\ cout = <<>>
    /\ ratios = <<>>

\* two segments of the original precision with their rescaled endpoints
InitRescaled ==
    /\ robust \in RobustPoints \X RobustPoints \X RobustPoints \X RobustPoints
    /\ a \in OriginalsOf(robust[1], robust[2])
    /\ b \in OriginalsOf(robust[3], robust[4])
    /\ robust = <<rescale(a[1]), rescale(a[2]), rescale(b[1]), rescale(b[2])>>
    /\ pc = "start"
    /\ result = NotCalled
    /\ result_ba = NotCalled
    /\ result_alt = NotCalled
    /\ cout = <<>>
    /\ ratios = <<>>

(* ------------------------------ the calls ----------------------------- *)

\* apply(a, b)
Apply ==
    /\ pc = "start"
    /\ LET c == apply_no_rescale(a, b)
       IN  /\ result' = c.ret
           /\ cout' = cout \o c.cout
           /\ ratios' = ratios \o c.ratios
    /\ pc' = "called"
    /\ UNCHANGED <<a, b, robust, result_ba, result_alt>>

\* apply(b, a), the same two segments in the other order
ApplySwapped ==
    /\ pc = "called"
    /\ LET c == apply_no_rescale(b, a)
       IN  /\ result_ba' = c.ret
           /\ cout' = cout \o c.cout
           /\ ratios' = ratios \o c.ratios
    /\ pc' = "done"
    /\ UNCHANGED <<a, b, robust, result, result_alt>>

\* apply(a, b, robust_policy, robust_a1, robust_a2, robust_b1, robust_b2)
ApplyRobust ==
    /\ pc = "start"
    /\ LET c == apply(a, b, robust[1], robust[2], robust[3], robust[4])
       IN  /\ result' = c.ret
           /\ cout' = cout \o c.cout
           /\ ratios' = ratios \o c.ratios
    /\ pc' = "called"
    /\ UNCHANGED <<a, b, robust, result_ba, result_alt>>

\* apply on other segments of the original precision that rescale to the same
\* four robust endpoints
ApplyRobustAlt ==
    /\ pc = "called"
    /\ \E a_alt \in OriginalsOf(robust[1], robust[2]),
          b_alt \in OriginalsOf(robust[3], robust[4]) :
          LET c == apply(a_alt, b_alt,
                         robust[1], robust[2], robust[3], robust[4])
          IN  /\ result_alt' = c.ret
              /\ cout' = cout \o c.cout
              /\ ratios' = ratios \o c.ratios
    /\ pc' = "done"
    /\ UNCHANGED <<a, b, robust, result, result_ba>>

Next == Apply \/ ApplySwapped

NextRescaled == ApplyRobust \/ ApplyRobustAlt

Spec == Init /\ [][Next]_vars

SpecRescaled == InitRescaled /\ [][NextRescaled]_vars

(* ------------------- plane geometry the claims refer to --------------- *)

Cross(ux, uy, vx, vy) == ux * vy - uy * vx
Min(x, y) == IF x < y THEN x ELSE y
Max(x, y) == IF x < y THEN y ELSE x

\* point p lies on the closed segment from s1 to s2
OnSegment(p, s1, s2) ==
    /\ Cross(s2[1] - s1[1], s2[2] - s1[2], p[1] - s1[1], p[2] - s1[2]) = 0
    /\ Min(s1[1], s2[1]) <= p[1] /\ p[1] <= Max(s1[1], s2[1])
    /\ Min(s1[2], s2[2]) <= p[2] /\ p[2] <= Max(s1[2], s2[2])

\* point p lies on the line through s1 and s2
OnLine(p, s1, s2) ==
    Cross(s2[1] - s1[1], s2[2] - s1[2], p[1] - s1[1], p[2] - s1[2]) = 0

APoint == robust[1] = robust[2]
BPoint == robust[3] = robust[4]

Parallel ==
    Cross(robust[2][1] - robust[1][1], robust[2][2] - robust[1][2],
          robust[4][1] - robust[3][1], robust[4][2] - robust[3][2]) = 0

OnOneLine ==
    /\ OnLine(robust[1], robust[3], robust[4])
    /\ OnLine(robust[2], robust[3], robust[4])
    /\ OnLine(robust[3], robust[1], robust[2])
    /\ OnLine(robust[4], robust[1], robust[2])

\* the lines of two segments that are not parallel meet at parameter tn / den
\* of a and sn / den of b: the point is common when both lie in [0, 1]
LinesMeetInside ==
    LET ux == robust[2][1] - robust[1][1]
        uy == robust[2][2] - robust[1][2]
        vx == robust[4][1] - robust[3][1]
        vy == robust[4][2] - robust[3][2]
        qx == robust[3][1] - robust[1][1]
        qy == robust[3][2] - robust[1][2]
        den == Cross(ux, uy, vx, vy)
        tn == Cross(qx, qy, vx, vy)
        sn == Cross(qx, qy, ux, uy)
        sg == IF den < 0 THEN -1 ELSE 1
    IN  /\ 0 <= sg * tn /\ sg * tn <= sg * den
        /\ 0 <= sg * sn /\ sg * sn <= sg * den

\* the closed segments have a point in common
CommonPoint ==
    IF ~Parallel THEN LinesMeetInside
    ELSE \/ OnSegment(robust[1], robust[3], robust[4])
         \/ OnSegment(robust[2], robust[3], robust[4])
         \/ OnSegment(robust[3], robust[1], robust[2])
         \/ OnSegment(robust[4], robust[1], robust[2])

\* the pairs (i, j) with endpoint i of a equal to endpoint j of b
SharedEndpoints ==
    { ij \in {1, 2} \X {3, 4} : robust[ij[1]] = robust[ij[2]] }

WarningRobustD == "Warning: robust_d=0, SHOULD NOT OCCUR"

(* ------------------------------ the claims ---------------------------- *)

\* C2: when an input is a single point: two coincident points give
\* Policy::degenerate, two distinct points give Policy::disjoint, and a point
\* on the other (non-degenerate) segment gives Policy::degenerate called with
\* the point input, flagged true for a and false for b.
C2_DegenerateConsistency ==
    pc # "start" =>
        /\ (APoint /\ BPoint /\ robust[1] = robust[3])
               => result.kind = "degenerate"
        /\ (APoint /\ BPoint /\ robust[1] # robust[3])
               => result = Policy_disjoint
        /\ (APoint /\ ~BPoint /\ OnSegment(robust[1], robust[3], robust[4]))
               => result = Policy_degenerate(a, TRUE)
        /\ (BPoint /\ ~APoint /\ OnSegment(robust[3], robust[1], robust[2]))
               => result = Policy_degenerate(b, FALSE)

\* a point b strictly inside the segment a has been related
C2_Witness ==
    /\ pc = "called"
    /\ BPoint /\ ~APoint
    /\ OnSegment(robust[3], robust[1], robust[2])
    /\ robust[3] # robust[1] /\ robust[3] # robust[2]
    /\ result.kind = "degenerate"

\* C3: with exactly one point input, Policy::degenerate is called only when
\* the point lies within the closed extent of the other segment; a point on
\* the other's line beyond its endpoints gives Policy::disjoint.
C3_DegenerateOnlyOnSegment ==
    pc # "start" =>
        /\ (APoint /\ ~BPoint /\ result.kind = "degenerate")
               => OnSegment(robust[1], robust[3], robust[4])
        /\ (BPoint /\ ~APoint /\ result.kind = "degenerate")
               => OnSegment(robust[3], robust[1], robust[2])
        /\ (APoint /\ ~BPoint /\ OnLine(robust[1], robust[3], robust[4])
                   /\ ~OnSegment(robust[1], robust[3], robust[4]))
               => result = Policy_disjoint
        /\ (BPoint /\ ~APoint /\ OnLine(robust[3], robust[1], robust[2])
                   /\ ~OnSegment(robust[3], robust[1], robust[2]))
               => result = Policy_disjoint

\* C4 as stated: two non-degenerate segments, not on one line, that share
\* exactly one endpoint give Policy::degenerate and never segments_crosses.
C4_SharedEndpointDegenerate ==
    (pc # "start" /\ ~APoint /\ ~BPoint /\ ~OnOneLine
         /\ Cardinality(SharedEndpoints) = 1)
        => result.kind = "degenerate"

\* C4 amended: two non-degenerate segments, not on one line, that share
\* exactly one endpoint give Policy::segments_crosses, never
\* Policy::degenerate, with robust_ra and robust_rb each at the end (0 for the
\* start, 1 for the end) of its segment that is the shared endpoint.
C4_SharedEndpointCrosses ==
    (pc # "start" /\ ~APoint /\ ~BPoint /\ ~OnOneLine
         /\ Cardinality(SharedEndpoints) = 1)
        => /\ result.kind = "segments_crosses"
           /\ \A ij \in SharedEndpoints :
                 /\ result.sinfo.robust_ra.denominator > 0
                 /\ result.sinfo.robust_rb.denominator > 0
                 /\ result.sinfo.robust_ra.numerator =
                        (IF ij[1] = 1 THEN 0
                                      ELSE result.sinfo.robust_ra.denominator)
                 /\ result.sinfo.robust_rb.numerator =
                        (IF ij[2] = 3 THEN 0
                                      ELSE result.sinfo.robust_rb.denominator)

\* the end of a is the start of b, and the two are not on one line
C4_Witness ==
    /\ pc = "called"
    /\ ~APoint /\ ~BPoint /\ ~OnOneLine
    /\ SharedEndpoints = {<<2, 3>>}
    /\ result.kind = "segments_crosses"

\* the axis relate_collinear is given: x when the two segments span at least
\* as much in x as in y
ChosenAxis ==
    IF abs(robust[2][1] - robust[1][1]) + abs(robust[4][1] - robust[3][1])
         >= abs(robust[2][2] - robust[1][2]) + abs(robust[4][2] - robust[3][2])
    THEN 1 ELSE 2

\* the closed intervals of a and of b on the chosen axis have a common point
SpansIntersect ==
    LET k == ChosenAxis
    IN  Max(Min(robust[1][k], robust[2][k]), Min(robust[3][k], robust[4][k]))
          <= Min(Max(robust[1][k], robust[2][k]),
                 Max(robust[3][k], robust[4][k]))

\* the two closed intervals on the chosen axis share exactly one coordinate
SpansTouch ==
    LET k == ChosenAxis
    IN  Max(Min(robust[1][k], robust[2][k]), Min(robust[3][k], robust[4][k]))
          = Min(Max(robust[1][k], robust[2][k]),
                Max(robust[3][k], robust[4][k]))

\* C5: for two non-degenerate segments with all four endpoints on one line,
\* Policy::segments_collinear is returned iff the closed intervals the two
\* span on the chosen axis intersect, and Policy::disjoint otherwise.
C5_CollinearCompleteness ==
    (pc # "start" /\ ~APoint /\ ~BPoint /\ OnOneLine) =>
        /\ (result.kind = "segments_collinear") <=> SpansIntersect
        /\ ~SpansIntersect => result = Policy_disjoint

\* two segments of opposite direction on one line that touch in one point
C5_Witness ==
    /\ pc = "called"
    /\ ~APoint /\ ~BPoint /\ OnOneLine
    /\ SpansTouch
    /\ robust[2] = robust[4]
    /\ result.kind = "segments_collinear"

\* C8: no segment_ratio is made with a zero denominator, neither robust_ra and
\* robust_rb of a crossing nor the four ratios of relate_collinear.
C8_NoZeroDenominator ==
    \A i \in 1..Len(ratios) : ratios[i].denominator # 0

\* relate_collinear has made its four ratios on the y axis
C8_Witness ==
    /\ pc = "called"
    /\ ChosenAxis = 2
    /\ Len(ratios) = 4

\* C9: for two non-degenerate segments, Policy::disjoint iff the closed
\* segments have no common point, Policy::segments_crosses iff they are not
\* parallel and have a common point, Policy::segments_collinear iff they are
\* on one line and have a common point.
C9_Classification ==
    (pc # "start" /\ ~APoint /\ ~BPoint) =>
        /\ (result = Policy_disjoint) <=> ~CommonPoint
        /\ (result.kind = "segments_crosses") <=> (~Parallel /\ CommonPoint)
        /\ (result.kind = "segments_collinear") <=> (OnOneLine /\ CommonPoint)

\* two segments that cross in the interior of both
C9_Witness ==
    /\ pc = "called"
    /\ result.kind = "segments_crosses"
    /\ result.sides = <<<<1, -1>>, <<-1, 1>>>>

\* C10: with the sides and the determinant taken from the same integer
\* endpoints, the branch that finds robust_da0 zero after the sides denied
\* collinearity is never taken.
C10_NoConsistencyFault ==
    \A i \in 1..Len(cout) : cout[i] # WarningRobustD

\* the determinants of two segments that are not collinear have been taken
C10_Witness ==
    /\ pc = "called"
    /\ ~APoint /\ ~BPoint /\ ~OnOneLine
    /\ result.kind = "segments_crosses"
    /\ Len(ratios) = 2

\* the input a call's flag names: the call apply(a, b) names a when the flag
\* is true, the call apply(b, a) names b when the flag is true
NamedByFirstCall(x) == IF x.a_degenerate THEN "a" ELSE "b"
NamedBySwappedCall(y) == IF y.a_degenerate THEN "b" ELSE "a"

\* y is x with the roles of the two segments exchanged
Mirrored(x, y) ==
    /\ x.kind = y.kind
    /\ x.kind = "degenerate" =>
           NamedByFirstCall(x) = NamedBySwappedCall(y)
    /\ x.kind = "segments_crosses" =>
           /\ y.sides = <<x.sides[2], x.sides[1]>>
           /\ y.sinfo.robust_ra = x.sinfo.robust_rb
           /\ y.sinfo.robust_rb = x.sinfo.robust_ra
    /\ x.kind = "segments_collinear" =>
           /\ y.ra_from = x.rb_from /\ y.ra_to = x.rb_to
           /\ y.rb_from = x.ra_from /\ y.rb_to = x.ra_to

\* C1 as stated: apply(a, b) and apply(b, a) call the same kind of outcome
\* with the roles exchanged, the degenerate flag naming the same input in both.
C1_Symmetry ==
    pc = "done" => Mirrored(result, result_ba)

\* C1 amended: apply(a, b) and apply(b, a) call the same kind of outcome with
\* the roles exchanged, the degenerate flag naming the same input in both,
\* except for two coincident points, where either call passes true and so
\* names its own first argument.
C1_SymmetryButCoincidentPoints ==
    pc = "done" =>
        IF APoint /\ BPoint /\ robust[1] = robust[3]
        THEN /\ result = Policy_degenerate(a, TRUE)
             /\ result_ba = Policy_degenerate(b, TRUE)
        ELSE Mirrored(result, result_ba)

\* both orders have related a point a that lies on the segment b
C1_Witness ==
    /\ pc = "done"
    /\ APoint /\ ~BPoint
    /\ result.kind = "degenerate" /\ result.a_degenerate
    /\ result_ba.kind = "degenerate" /\ ~result_ba.a_degenerate

\* d and da of the original precision, as cramers_rule is given them
OriginalD ==
    Cross(a[2][1] - a[1][1], a[2][2] - a[1][2],
          b[2][1] - b[1][1], b[2][2] - b[1][2])
OriginalDa ==
    Cross(b[2][1] - b[1][1], b[2][2] - b[1][2],
          a[1][1] - b[1][1], a[1][2] - b[1][2])

\* da / d is above 1, below 0
Overshoot ==
    \/ OriginalD > 0 /\ OriginalDa > OriginalD
    \/ OriginalD < 0 /\ OriginalDa < OriginalD
Undershoot ==
    \/ OriginalD > 0 /\ OriginalDa < 0
    \/ OriginalD < 0 /\ OriginalDa > 0

\* C6: the r given to Policy::segments_crosses lies in [0, 1]: it is 0 when
\* d is zero, 1 when da / d is above 1, 0 when da / d is below 0, and da / d
\* otherwise.
C6_RatioBounds ==
    (pc # "start" /\ result.kind = "segments_crosses") =>
        LET r == result.sinfo.r
        IN  /\ r[2] > 0 /\ 0 <= r[1] /\ r[1] <= r[2]
            /\ OriginalD = 0 => r = <<0, 1>>
            /\ Overshoot => r = <<1, 1>>
            /\ Undershoot => r = <<0, 1>>
            /\ (OriginalD # 0 /\ ~Overshoot /\ ~Undershoot)
                   => r[1] * OriginalD = OriginalDa * r[2]

\* a crossing whose ratio of the original precision is above 1
C6_Witness ==
    /\ pc = "called"
    /\ result.kind = "segments_crosses"
    /\ Overshoot
    /\ result.sinfo.r = <<1, 1>>

\* a crossing whose determinant of the original precision is zero
C6_WitnessZeroD ==
    /\ pc = "called"
    /\ result.kind = "segments_crosses"
    /\ OriginalD = 0

\* x and y are the same decision with the same robust evidence
SameDecision(x, y) ==
    /\ x.kind = y.kind
    /\ x.kind = "degenerate" => x.a_degenerate = y.a_degenerate
    /\ x.kind = "segments_crosses" =>
           /\ x.sides = y.sides
           /\ x.sinfo.robust_ra = y.sinfo.robust_ra
           /\ x.sinfo.robust_rb = y.sinfo.robust_rb
    /\ x.kind = "segments_collinear" =>
           /\ x.ra_from = y.ra_from /\ x.ra_to = y.ra_to
           /\ x.rb_from = y.rb_from /\ x.rb_to = y.rb_to

\* C7: two calls with the same four robust endpoints and different segments
\* of the original precision call the same outcome with the same flag, sides
\* and position ratios.
C7_RobustOnly ==
    pc = "done" => SameDecision(result, result_alt)

\* two crossings on the same robust endpoints that differ in r and in dy_a
C7_Witness ==
    /\ pc = "done"
    /\ result.kind = "segments_crosses"
    /\ result_alt.kind = "segments_crosses"
    /\ result.sinfo.r # result_alt.sinfo.r
    /\ result.sinfo.dy_a # result_alt.sinfo.dy_a

=============================================================================
